---- MODULE Spec2Model ----
(***************************************************************************)
(* State-machine model of samudra_backend.py: the in-memory telemetry      *)
(* store (three bounded histories, three latest records, system_status),   *)
(* the data_lock that guards it, the three ingest handlers, the REST and   *)
(* WebSocket readers and the background check_device_status sweeper.       *)
(*                                                                         *)
(* Python values are represented as follows:                               *)
(*   dict            a function from keys (strings) to values              *)
(*   {} / None       the empty function <<>>                               *)
(*   deque / list    a sequence, oldest element first                      *)
(*   datetime        a number of seconds on the server clock               *)
(*   isoformat text  <<minutes, seconds>>, see isoformat / fromisoformat   *)
(***************************************************************************)
EXTENDS Integers, Sequences, FiniteSets, TLC

VARIABLES
    history,         \* vessel_data_history, buoy_data_history, base_station_data_history
    current,         \* current_vessel_data, current_buoy_data, current_base_station_data
    system_status,   \* the system_status dict
    data_lock,       \* holder of data_lock, or Free
    now,             \* the server clock, datetime.now(), in seconds
    ticks,           \* how many times the clock has advanced
    pc,              \* per producer thread: position in its ingest handler
    req,             \* per producer thread: its request (number, category, body)
                     \* and the local `data`
    ret,             \* per producer thread: the response of its last call
    ncalls,          \* ingest requests received so far
    emitted,         \* socketio.emit / emit calls so far, in order, each with
                     \* the clients it is delivered to
    sock,            \* per client session id: "new", "open" or "closed"
    rpc,             \* reader thread: position in its handler
    rreq,            \* reader thread: the request being served
    rres,            \* reader thread: its last response
    nreads,          \* read requests received so far
    spc,             \* sweeper thread: position in check_device_status
    current_time,    \* sweeper thread: its local current_time
    sleep_from,      \* sweeper thread: clock value when its sleep began
    nsweeps,         \* sweeps completed so far
    commit_log,      \* history variable: per category, every record committed
    n_committed,     \* history variable: ingest critical sections completed
    n_success,       \* history variable: ingest calls answered with success
    read_at,         \* history variable: n_committed when the reader last read
    commit_order,    \* history variable: request numbers, in the order their
                     \* critical sections completed
    connected_at     \* history variable: per client, n_committed when it
                     \* connected

store == <<history, current, system_status>>
prod  == <<pc, req, ret, ncalls>>
rdr   == <<rpc, rreq, rres, nreads>>
swp   == <<spc, current_time, sleep_from, nsweeps>>
ghost == <<commit_log, n_committed, n_success, read_at, commit_order,
           connected_at>>
vars  == <<history, current, system_status, data_lock, now, ticks, pc, req, ret,
           ncalls, emitted, sock, rpc, rreq, rres, nreads, spc, current_time,
           sleep_from, nsweeps, commit_log, n_committed, n_success, read_at,
           commit_order, connected_at>>

----------------------------------------------------------------------------
(* Bounds of the model. *)

MaxCalls  == 2      \* ingest requests
MaxReads  == 1      \* read requests
MaxTicks  == 1      \* clock advances
MaxSweeps == 1      \* sweeps of check_device_status

(* Program constants. *)

maxlen            == 1000   \* deque(maxlen=1000)
DefaultLimit      == 100    \* request.args.get('limit', 100, type=int)
OfflineAfter      == 30     \* (current_time - last_seen).total_seconds() > 30
SleepSeconds      == 30     \* time.sleep(30)

Categories == {"vessel", "buoy", "base_station"}
Producers  == {"p1", "p2"}
Reader     == "r1"
Sweeper    == "s1"
Sids       == {"c1", "c2"}
Free       == "free"
None       == <<>>
EmptyDict  == <<>>
TickSteps  == {30, 31}

----------------------------------------------------------------------------
(* Helpers: Python built-ins the handlers use. *)

Min(a, b) == IF a < b THEN a ELSE b
Max(a, b) == IF a > b THEN a ELSE b

\* datetime.isoformat(): the clock value written out in fields.
isoformat(t) == <<t \div 60, t % 60>>

\* datetime.fromisoformat(): the fields read back into a clock value.
fromisoformat(s) == s[1] * 60 + s[2]

\* Python truthiness of a value that is None or a non-empty string.
Truthy(v) == v # None

\* d[key] = value on a dict.
DictSet(d, key, value) == (key :> value) @@ d

\* A deque that discards its newest element, not its oldest, when full.
DequeAppendDropsNewest(dq, x, cap) ==
    IF Len(dq) >= cap
    THEN Append(SubSeq(dq, 1, Len(dq) - 1), x)
    ELSE Append(dq, x)

\* deque.append on a deque(maxlen=cap): the oldest element is discarded
\* when the deque is full.
DequeAppend(dq, x, cap) ==
    IF Len(dq) >= cap THEN Append(Tail(dq), x) ELSE Append(dq, x)

\* list(dq)[-limit:]  (Python slice semantics, also for limit <= 0).
SliceFrom(lst, start) ==
    LET n  == Len(lst)
        lo == IF start < 0 THEN Max(n + start, 0) ELSE Min(start, n)
    IN  SubSeq(lst, lo + 1, n)

LastSlice(lst, limit) == SliceFrom(lst, 0 - limit)

----------------------------------------------------------------------------
(* system_status keys of a category. *)

OnlineKey(c)   == c \o "_online"
LastSeenKey(c) == c \o "_last_seen"

(* Request bodies: what request.get_json() returns. *)

\* An item assignment that also succeeds on a list.
IsDictOrList(body) == body.type \in {"dict", "list"}

IsDict(body) == body.type = "dict"

DictBodies(n) ==
    { [type |-> "dict", value |-> [id |-> n, lat |-> 129, lon |-> 776]],
      [type |-> "dict", value |-> [id |-> n]] }

OtherBodies ==
    { [type |-> t, value |-> None] : t \in {"str", "list", "null"} }

Bodies(n) == DictBodies(n) \cup OtherBodies

\* The event each handler emits.
EventName(c) ==
    CASE c = "vessel"       -> "vessel_update"
      [] c = "buoy"         -> "buoy_update"
      [] c = "base_station" -> "basestation_update"

\* The print(f"...") of each handler: data.get('lat') is None when the key is
\* absent and format(None, '.4f') raises TypeError, so the vessel and buoy
\* lines raise when 'lat' or 'lon' is absent; the base station line formats
\* nothing with a format spec.
LogLineRaises(c, data) ==
    /\ c \in {"vessel", "buoy"}
    /\ \/ "lat" \notin DOMAIN data
       \/ "lon" \notin DOMAIN data

\* A producer thread that has served no request yet.
NoRequest ==
    [n |-> 0, cat |-> "vessel", body |-> [type |-> "null", value |-> None],
     data |-> EmptyDict]

----------------------------------------------------------------------------
Init ==
    /\ history = [c \in Categories |-> <<>>]
    /\ current = [c \in Categories |-> EmptyDict]
    /\ system_status = [vessel_online |-> FALSE,
                        buoy_online |-> FALSE,
                        base_station_online |-> FALSE,
                        vessel_last_seen |-> None,
                        buoy_last_seen |-> None,
                        base_station_last_seen |-> None,
                        total_messages |-> 0]
    /\ data_lock = Free
    /\ now = 0
    /\ ticks = 0
    /\ pc = [p \in Producers |-> "idle"]
    /\ req = [p \in Producers |-> NoRequest]
    /\ ret = [p \in Producers |-> None]
    /\ ncalls = 0
    /\ emitted = <<>>
    /\ sock = [s \in Sids |-> "new"]
    /\ rpc = "idle"
    /\ rreq = None
    /\ rres = None
    /\ nreads = 0
    /\ spc = "sleep"
    /\ current_time = 0
    /\ sleep_from = 0
    /\ nsweeps = 0
    /\ commit_log = [c \in Categories |-> <<>>]
    /\ n_committed = 0
    /\ n_success = 0
    /\ read_at = 0
    /\ commit_order = <<>>
    /\ connected_at = [s \in Sids |-> 0]

----------------------------------------------------------------------------
(* The server clock. *)

\* The clock advances, at most m times.
TickUpTo(m) ==
    /\ ticks < m
    /\ \E d \in TickSteps : now' = now + d
    /\ ticks' = ticks + 1
    /\ UNCHANGED <<sock, store, data_lock, prod, emitted, rdr, swp, ghost>>

Tick == TickUpTo(MaxTicks)

----------------------------------------------------------------------------
(* The ingest handlers receive_vessel_data, receive_buoy_data and          *)
(* receive_basestation_data, one statement per step.                       *)

\* jsonify({"status": "error", ...}), 400  and
\* jsonify({"status": "success", ..., "timestamp": ts}), 200
ErrorResponse == [code |-> 400, status |-> "error", timestamp |-> None]
SuccessResponse(ts) == [code |-> 200, status |-> "success", timestamp |-> ts]

\* data = request.get_json(); data['server_timestamp'] = now().isoformat()
\* A body that is not a dict raises TypeError on the item assignment, and
\* the except branch answers 400.
IngestBegin(p, c, body) ==
    /\ pc[p] = "idle"
    /\ ncalls < MaxCalls
    /\ ncalls' = ncalls + 1
    /\ IF IsDict(body)
       THEN /\ req' = [req EXCEPT ![p] =
                        [n |-> ncalls + 1, cat |-> c, body |-> body,
                         data |-> DictSet(body.value, "server_timestamp",
                                          isoformat(now))]]
            /\ pc' = [pc EXCEPT ![p] = "lock"]
            /\ ret' = [ret EXCEPT ![p] = None]
       ELSE /\ req' = [req EXCEPT ![p] =
                        [n |-> ncalls + 1, cat |-> c, body |-> body,
                         data |-> EmptyDict]]
            /\ ret' = [ret EXCEPT ![p] = ErrorResponse]
            /\ UNCHANGED pc
    /\ UNCHANGED <<sock, store, data_lock, now, ticks, emitted, rdr, swp, ghost>>

\* A lock that excludes nobody.
CanAcquireAlways(lock) == TRUE

\* with data_lock: the lock is taken only when nobody holds it.
CanAcquire(lock) == lock = Free

IngestAcquire(p) ==
    /\ pc[p] = "lock"
    /\ CanAcquire(data_lock)
    /\ data_lock' = p
    /\ pc' = [pc EXCEPT ![p] = "append"]
    /\ UNCHANGED <<sock, store, now, ticks, req, ret, ncalls, emitted, rdr, swp, ghost>>

\* vessel_data_history.append(data)
IngestAppend(p) ==
    /\ pc[p] = "append"
    /\ history' = [history EXCEPT ![req[p].cat] =
                     DequeAppend(@, req[p].data, maxlen)]
    /\ pc' = [pc EXCEPT ![p] = "set_current"]
    /\ UNCHANGED <<sock, current, system_status, data_lock, now, ticks, req, ret,
                   ncalls, emitted, rdr, swp, ghost>>

\* A handler that publishes the oldest record of the history as the latest.
IngestSetCurrentOldest(p) ==
    /\ pc[p] = "set_current"
    /\ current' = [current EXCEPT ![req[p].cat] = Head(history[req[p].cat])]
    /\ pc' = [pc EXCEPT ![p] = "set_online"]
    /\ UNCHANGED <<sock, history, system_status, data_lock, now, ticks, req, ret,
                   ncalls, emitted, rdr, swp, ghost>>

\* current_vessel_data = data
IngestSetCurrent(p) ==
    /\ pc[p] = "set_current"
    /\ current' = [current EXCEPT ![req[p].cat] = req[p].data]
    /\ pc' = [pc EXCEPT ![p] = "set_online"]
    /\ UNCHANGED <<sock, history, system_status, data_lock, now, ticks, req, ret,
                   ncalls, emitted, rdr, swp, ghost>>

\* A handler that marks the category online only for its first record.
IngestSetOnlineFirstOnly(p) ==
    /\ pc[p] = "set_online"
    /\ system_status' =
           IF system_status[LastSeenKey(req[p].cat)] = None
           THEN [system_status EXCEPT ![OnlineKey(req[p].cat)] = TRUE]
           ELSE system_status
    /\ pc' = [pc EXCEPT ![p] = "set_last_seen"]
    /\ UNCHANGED <<sock, history, current, data_lock, now, ticks, req, ret, ncalls,
                   emitted, rdr, swp, ghost>>

\* system_status['vessel_online'] = True
IngestSetOnline(p) ==
    /\ pc[p] = "set_online"
    /\ system_status' = [system_status EXCEPT ![OnlineKey(req[p].cat)] = TRUE]
    /\ pc' = [pc EXCEPT ![p] = "set_last_seen"]
    /\ UNCHANGED <<sock, history, current, data_lock, now, ticks, req, ret, ncalls,
                   emitted, rdr, swp, ghost>>

\* system_status['vessel_last_seen'] = datetime.now().isoformat()
IngestSetLastSeen(p) ==
    /\ pc[p] = "set_last_seen"
    /\ system_status' = [system_status EXCEPT
                           ![LastSeenKey(req[p].cat)] = isoformat(now)]
    /\ pc' = [pc EXCEPT ![p] = "inc_total"]
    /\ UNCHANGED <<sock, history, current, data_lock, now, ticks, req, ret, ncalls,
                   emitted, rdr, swp, ghost>>

\* system_status['total_messages'] += 1, and the end of the with block.
IngestIncTotal(p) ==
    /\ pc[p] = "inc_total"
    /\ system_status' = [system_status EXCEPT !["total_messages"] = @ + 1]
    /\ data_lock' = Free
    /\ pc' = [pc EXCEPT ![p] = "emit"]
    /\ commit_log' = [commit_log EXCEPT ![req[p].cat] = Append(@, req[p].data)]
    /\ n_committed' = n_committed + 1
    /\ commit_order' = Append(commit_order, req[p].n)
    /\ UNCHANGED <<sock, history, current, now, ticks, req, ret, ncalls, emitted,
                   rdr, swp, n_success, read_at, connected_at>>

\* The clients connected to the server.
Subs == {s \in Sids : sock[s] = "open"}

\* An emit that reaches one client only, as emit(..., to=sid) does.
IngestEmitUnicast(p) ==
    /\ pc[p] = "emit"
    /\ emitted' = Append(emitted,
                         [event |-> EventName(req[p].cat),
                          data |-> req[p].data,
                          to |-> IF Subs = {} THEN {}
                                 ELSE {CHOOSE s \in Subs : TRUE}])
    /\ pc' = [pc EXCEPT ![p] = "log"]
    /\ UNCHANGED <<sock, store, data_lock, now, ticks, req, ret, ncalls, rdr,
                   swp, ghost>>

\* socketio.emit('vessel_update', data, namespace='/'): a broadcast to every
\* client connected at the time of the call.
IngestEmit(p) ==
    /\ pc[p] = "emit"
    /\ emitted' = Append(emitted, [event |-> EventName(req[p].cat),
                                   data |-> req[p].data,
                                   to |-> Subs])
    /\ pc' = [pc EXCEPT ![p] = "log"]
    /\ UNCHANGED <<sock, store, data_lock, now, ticks, req, ret, ncalls, rdr, swp,
                   ghost>>

\* print(f"... {data.get('lat'):.4f} ..."), then the success response; an
\* exception from the print is answered by the except branch with 400.
IngestLogAndReturn(p) ==
    /\ pc[p] = "log"
    /\ pc' = [pc EXCEPT ![p] = "idle"]
    /\ IF LogLineRaises(req[p].cat, req[p].data)
       THEN /\ ret' = [ret EXCEPT ![p] = ErrorResponse]
            /\ UNCHANGED n_success
       ELSE /\ ret' = [ret EXCEPT ![p] =
                        SuccessResponse(req[p].data["server_timestamp"])]
            /\ n_success' = n_success + 1
    /\ UNCHANGED <<sock, store, data_lock, now, ticks, req, ncalls, emitted, rdr,
                   swp, commit_log, n_committed, read_at, commit_order,
                   connected_at>>

IngestOf(P) ==
    \E p \in P :
        \/ \E c \in Categories : \E body \in Bodies(ncalls + 1) :
               IngestBegin(p, c, body)
        \/ IngestAcquire(p)
        \/ IngestAppend(p)
        \/ IngestSetCurrent(p)
        \/ IngestSetOnline(p)
        \/ IngestSetLastSeen(p)
        \/ IngestIncTotal(p)
        \/ IngestEmit(p)
        \/ IngestLogAndReturn(p)

Ingest == IngestOf(Producers)

\* The steps of a handler that has received its request, and a producer
\* whose requests carry complete records.
IngestRun(p) ==
    \/ IngestAcquire(p)
    \/ IngestAppend(p)
    \/ IngestSetCurrent(p)
    \/ IngestSetOnline(p)
    \/ IngestSetLastSeen(p)
    \/ IngestIncTotal(p)
    \/ IngestEmit(p)
    \/ IngestLogAndReturn(p)

IngestComplete(p) ==
    \/ \E c \in Categories :
           IngestBegin(p, c, [type |-> "dict",
                              value |-> [id |-> ncalls + 1,
                                         lat |-> 129, lon |-> 776]])
    \/ IngestRun(p)

----------------------------------------------------------------------------
(* The readers: get_latest_vessel / _buoy / _basestation,                  *)
(* get_vessel_history / _buoy_ / _basestation_, get_all_latest,            *)
(* get_system_status and the WebSocket handler handle_request_all_data.    *)

\* A query string: no limit parameter, an integer text or another text.
LimitValues == {-1, 0, 1, 2}
QueryArgs ==
    {<<>>} \cup {<<"int", n>> : n \in LimitValues} \cup {<<"text", 0>>}

\* request.args.get('limit', 100, type=int): the default when the parameter
\* is absent or int() rejects its text.
ArgsGetInt(args, default) ==
    IF args # <<>> /\ args[1] = "int" THEN args[2] ELSE default

\* The REST requests.
RestRequests ==
    {[op |-> "latest", cat |-> c, args |-> <<>>, sid |-> ""] : c \in Categories}
    \cup {[op |-> "history", cat |-> c, args |-> a, sid |-> ""] :
             c \in Categories, a \in QueryArgs}
    \cup {[op |-> o, cat |-> "vessel", args |-> <<>>, sid |-> ""] :
             o \in {"all_latest", "status"}}

\* The 'request_all_data' event of a client; request.sid names the client.
PullRequests ==
    {[op |-> "request_all_data", cat |-> "vessel", args |-> <<>>, sid |-> s] :
        s \in Sids}

ReadRequests == RestRequests \cup PullRequests

\* The dict get_all_latest and handle_request_all_data build.
AllData ==
    [vessel |-> current["vessel"],
     buoy |-> current["buoy"],
     base_station |-> current["base_station"],
     system_status |-> system_status]

\* The body each read handler produces from the store; for
\* handle_request_all_data, the payload of the event it sends.
ReadResult(r) ==
    CASE r.op = "latest"  -> current[r.cat]
      [] r.op = "history" ->
             LastSlice(history[r.cat], ArgsGetInt(r.args, DefaultLimit))
      [] r.op = "status"  -> system_status
      [] OTHER            -> AllData

\* limit = request.args.get(...); with data_lock:
\* A socket event arrives only from a connected client.
ReadAcquire(r) ==
    /\ rpc = "idle"
    /\ r.op = "request_all_data" => sock[r.sid] = "open"
    /\ nreads < MaxReads
    /\ CanAcquire(data_lock)
    /\ data_lock' = Reader
    /\ rreq' = r
    /\ rres' = None
    /\ rpc' = "locked"
    /\ nreads' = nreads + 1
    /\ UNCHANGED <<sock, store, now, ticks, prod, emitted, swp, ghost>>

\* return jsonify(...) inside the with block; handle_request_all_data
\* emits 'all_data' to the requesting client inside it instead.
ReadRespond ==
    /\ rpc = "locked"
    /\ rres' = [code |-> 200, body |-> ReadResult(rreq)]
    /\ emitted' = IF rreq.op = "request_all_data"
                  THEN Append(emitted, [event |-> "all_data", data |-> AllData,
                                        to |-> {rreq.sid} \cap Subs])
                  ELSE emitted
    /\ data_lock' = Free
    /\ rpc' = "idle"
    /\ read_at' = n_committed
    /\ UNCHANGED <<sock, store, now, ticks, prod, rreq, nreads, swp,
                   commit_log, n_committed, n_success, commit_order,
                   connected_at>>

ReadOf(R) == (\E r \in R : ReadAcquire(r)) \/ ReadRespond

Read == ReadOf(ReadRequests)

----------------------------------------------------------------------------
(* The WebSocket connection handlers handle_connect and handle_disconnect. *)

\* The acknowledgement handle_connect sends.
ConnectionResponse(s) ==
    [event |-> "connection_response", data |-> [status |-> "connected"],
     to |-> {s}]

\* A connect handler that also sends the new client the latest records.
ConnectWithReplay(s) ==
    LET latest(c) == IF current[c] = EmptyDict
                     THEN <<>>
                     ELSE <<[event |-> EventName(c), data |-> current[c],
                             to |-> {s}]>>
    IN  /\ sock[s] = "new"
        /\ sock' = [sock EXCEPT ![s] = "open"]
        /\ emitted' = Append(emitted, ConnectionResponse(s))
                        \o latest("vessel") \o latest("buoy")
                        \o latest("base_station")
        /\ connected_at' = [connected_at EXCEPT ![s] = n_committed]
        /\ UNCHANGED <<store, data_lock, now, ticks, prod, rdr, swp,
                       commit_log, n_committed, n_success, read_at,
                       commit_order>>

\* emit('connection_response', {'status': 'connected'}): to the client that
\* connected, whose session id is new.
Connect(s) ==
    /\ sock[s] = "new"
    /\ sock' = [sock EXCEPT ![s] = "open"]
    /\ emitted' = Append(emitted, ConnectionResponse(s))
    /\ connected_at' = [connected_at EXCEPT ![s] = n_committed]
    /\ UNCHANGED <<store, data_lock, now, ticks, prod, rdr, swp, commit_log,
                   n_committed, n_success, read_at, commit_order>>

\* handle_disconnect only prints; the client leaves the broadcast set.
Disconnect(s) ==
    /\ sock[s] = "open"
    /\ sock' = [sock EXCEPT ![s] = "closed"]
    /\ UNCHANGED <<store, data_lock, now, ticks, prod, emitted, rdr, swp, ghost>>

SocketOf(S) == \E s \in S : Connect(s) \/ Disconnect(s)

Socket == SocketOf(Sids)

----------------------------------------------------------------------------
(* The background thread check_device_status.                              *)

\* A block that compares with >= 30 instead of > 30.
CheckDeviceAtThreshold(st, c, t) ==
    IF Truthy(st[LastSeenKey(c)])
    THEN LET last_seen == fromisoformat(st[LastSeenKey(c)])
         IN  IF t - last_seen >= OfflineAfter
             THEN [st EXCEPT ![OnlineKey(c)] = FALSE]
             ELSE st
    ELSE st

\* A block that reads the age as timedelta.seconds, which is never negative:
\* a last_seen after t gives a day minus the difference.
CheckDeviceSeconds(st, c, t) ==
    IF Truthy(st[LastSeenKey(c)])
    THEN LET last_seen == fromisoformat(st[LastSeenKey(c)])
         IN  IF (t - last_seen) % 86400 > OfflineAfter
             THEN [st EXCEPT ![OnlineKey(c)] = FALSE]
             ELSE st
    ELSE st

\* One "if system_status[..._last_seen]: ..." block of the sweep.
CheckDevice(st, c, t) ==
    IF Truthy(st[LastSeenKey(c)])
    THEN LET last_seen == fromisoformat(st[LastSeenKey(c)])
         IN  IF t - last_seen > OfflineAfter
             THEN [st EXCEPT ![OnlineKey(c)] = FALSE]
             ELSE st
    ELSE st

\* A sweep whose second block checks the vessel again, not the buoy.
CheckAllVesselTwice(st, t) ==
    CheckDevice(CheckDevice(CheckDevice(st, "vessel", t), "vessel", t),
                "base_station", t)

\* The three blocks in the order of the code.
CheckAll(st, t) ==
    CheckDevice(CheckDevice(CheckDevice(st, "vessel", t), "buoy", t),
                "base_station", t)

\* time.sleep(30) returns; current_time = datetime.now()
SweepWake ==
    /\ spc = "sleep"
    /\ nsweeps < MaxSweeps
    /\ now >= sleep_from + SleepSeconds
    /\ current_time' = now
    /\ spc' = "lock"
    /\ UNCHANGED <<sock, store, data_lock, now, ticks, prod, emitted, rdr,
                   sleep_from, nsweeps, ghost>>

\* A sweeper that gives up a sweep when the lock is taken, as
\* data_lock.acquire(blocking=False) does.
SweepAcquireOrSkip ==
    /\ spc = "lock"
    /\ IF CanAcquire(data_lock)
       THEN /\ data_lock' = Sweeper
            /\ spc' = "check"
            /\ UNCHANGED <<sleep_from, nsweeps>>
       ELSE /\ spc' = "sleep"
            /\ sleep_from' = now
            /\ nsweeps' = nsweeps + 1
            /\ UNCHANGED data_lock
    /\ UNCHANGED <<sock, store, now, ticks, prod, emitted, rdr, current_time,
                   ghost>>

\* with data_lock:
SweepAcquire ==
    /\ spc = "lock"
    /\ CanAcquire(data_lock)
    /\ data_lock' = Sweeper
    /\ spc' = "check"
    /\ UNCHANGED <<sock, store, now, ticks, prod, emitted, rdr, current_time,
                   sleep_from, nsweeps, ghost>>

\* The body of the with block, then back to the top of the loop.
SweepCheck ==
    /\ spc = "check"
    /\ system_status' = CheckAll(system_status, current_time)
    /\ data_lock' = Free
    /\ spc' = "sleep"
    /\ sleep_from' = now
    /\ nsweeps' = nsweeps + 1
    /\ UNCHANGED <<sock, history, current, now, ticks, prod, emitted, rdr,
                   current_time, ghost>>

Sweep == SweepWake \/ SweepAcquire \/ SweepCheck

----------------------------------------------------------------------------
(* The whole program, and the specifications that are model-checked: each  *)
(* runs a part of the program's threads.                                   *)

Next == Tick \/ Ingest \/ Read \/ Socket \/ Sweep

Spec == Init /\ [][Next]_vars

\* The clock and two concurrent producers.
NextIngest == Tick \/ Ingest
SpecIngest == Init /\ [][NextIngest]_vars

\* The clock, one producer and the sweeper.
NextSweep == Tick \/ IngestOf({"p1"}) \/ Sweep
SpecSweep == Init /\ [][NextSweep]_vars

\* The clock, the sweeper and one producer whose requests carry complete
\* records, under fair scheduling: a thread that can run eventually runs,
\* and a thread waiting for data_lock gets it if it is free again and again.
NextLive == Tick \/ IngestComplete("p1") \/ Sweep

SpecLive ==
    /\ Init
    /\ [][NextLive]_vars
    /\ WF_vars(IngestRun("p1"))
    /\ WF_vars(SweepWake)
    /\ SF_vars(SweepAcquire)
    /\ WF_vars(SweepCheck)

\* The same threads with one more advance of the clock, so that the clock
\* can move after the sweeper has read it.
NextLate == TickUpTo(MaxTicks + 1) \/ IngestComplete("p1") \/ Sweep
SpecLate == Init /\ [][NextLate]_vars

\* One producer and a reader, started from the state in which client c1
\* has connected, so that its 'request_all_data' event can arrive.
InitConnected ==
    /\ history = [c \in Categories |-> <<>>]
    /\ current = [c \in Categories |-> EmptyDict]
    /\ system_status = [vessel_online |-> FALSE,
                        buoy_online |-> FALSE,
                        base_station_online |-> FALSE,
                        vessel_last_seen |-> None,
                        buoy_last_seen |-> None,
                        base_station_last_seen |-> None,
                        total_messages |-> 0]
    /\ data_lock = Free
    /\ now = 0
    /\ ticks = 0
    /\ pc = [p \in Producers |-> "idle"]
    /\ req = [p \in Producers |-> NoRequest]
    /\ ret = [p \in Producers |-> None]
    /\ ncalls = 0
    /\ emitted = <<ConnectionResponse("c1")>>
    /\ sock = [s \in Sids |-> IF s = "c1" THEN "open" ELSE "new"]
    /\ rpc = "idle"
    /\ rreq = None
    /\ rres = None
    /\ nreads = 0
    /\ spc = "sleep"
    /\ current_time = 0
    /\ sleep_from = 0
    /\ nsweeps = 0
    /\ commit_log = [c \in Categories |-> <<>>]
    /\ n_committed = 0
    /\ n_success = 0
    /\ read_at = 0
    /\ commit_order = <<>>
    /\ connected_at = [s \in Sids |-> 0]

NextRead == IngestOf({"p1"}) \/ Read
SpecRead == InitConnected /\ [][NextRead]_vars

\* One producer, one client and the 'request_all_data' handler.
NextSub == IngestOf({"p1"}) \/ ReadOf(PullRequests) \/ SocketOf({"c1"})
SpecSub == Init /\ [][NextSub]_vars

\* One producer and the clients.
NextCast == IngestOf({"p1"}) \/ Socket
SpecCast == Init /\ [][NextCast]_vars

\* One producer, started from the store as it is after Prefill
\* accepted ingests per category (all within the clock's first second, all
\* threads idle): one record short of the capacity of each deque.
Prefill == maxlen - 1

PrefillRecord(i) ==
    [id |-> i - Prefill, lat |-> 129, lon |-> 776,
     server_timestamp |-> isoformat(0)]

InitFull ==
    /\ history = [c \in Categories |-> [i \in 1..Prefill |-> PrefillRecord(i)]]
    /\ current = [c \in Categories |-> PrefillRecord(Prefill)]
    /\ system_status = [vessel_online |-> TRUE,
                        buoy_online |-> TRUE,
                        base_station_online |-> TRUE,
                        vessel_last_seen |-> isoformat(0),
                        buoy_last_seen |-> isoformat(0),
                        base_station_last_seen |-> isoformat(0),
                        total_messages |-> 3 * Prefill]
    /\ data_lock = Free
    /\ now = 0
    /\ ticks = 0
    /\ pc = [p \in Producers |-> "idle"]
    /\ req = [p \in Producers |-> NoRequest]
    /\ ret = [p \in Producers |-> None]
    /\ ncalls = 0
    /\ emitted = <<>>
    /\ sock = [s \in Sids |-> "new"]
    /\ rpc = "idle"
    /\ rreq = None
    /\ rres = None
    /\ nreads = 0
    /\ spc = "sleep"
    /\ current_time = 0
    /\ sleep_from = 0
    /\ nsweeps = 0
    /\ commit_log = [c \in Categories |-> [i \in 1..Prefill |-> PrefillRecord(i)]]
    /\ n_committed = 3 * Prefill
    /\ n_success = 3 * Prefill
    /\ read_at = 0
    /\ commit_order = <<>>
    /\ connected_at = [s \in Sids |-> 0]

NextFull == IngestOf({"p1"})
SpecFull == InitFull /\ [][NextFull]_vars

----------------------------------------------------------------------------
(* Properties.                                                             *)

Online(c)   == system_status[OnlineKey(c)]
LastSeen(c) == system_status[LastSeenKey(c)]
AllIdle     == \A p \in Producers : pc[p] = "idle"

\* The last Min(k, Len(s)) elements of s, oldest first.
LastN(s, k) == SubSeq(s, Len(s) - Min(k, Len(s)) + 1, Len(s))

\* C1: every history holds at most 1000 records, and whenever no ingest is
\* inside its critical section the history of a category is the last 1000
\* records committed to it, in commit order, oldest first.
C1_HistoryIsLastCommitted ==
    \A c \in Categories :
        /\ Len(history[c]) <= maxlen
        /\ data_lock = Free =>
               history[c] = LastN(commit_log[c], maxlen)

\* More than 1000 records were committed to a category: the oldest are gone.
C1_Witness ==
    \E c \in Categories :
        /\ data_lock = Free
        /\ Len(commit_log[c]) > maxlen
        /\ Len(history[c]) = maxlen
        /\ history[c][1] = commit_log[c][Len(commit_log[c]) - maxlen + 1]
        /\ history[c][1] # commit_log[c][1]

\* C2: once every ingest call has returned, total_messages is the number of
\* calls that returned success.
C2_TotalIsSuccessCount ==
    AllIdle => system_status.total_messages = n_success

\* C3: whenever no ingest is inside its critical section (the states a
\* reader, who takes the lock, can observe), the latest record of a category
\* that has accepted a record is the record of its most recently committed
\* ingest, which is the newest element of its history.
C3_LatestIsNewestCommitted ==
    data_lock \notin Producers =>
        \A c \in Categories :
            commit_log[c] # <<>> =>
                /\ current[c] = commit_log[c][Len(commit_log[c])]
                /\ history[c] # <<>>
                /\ current[c] = history[c][Len(history[c])]

\* A reader holds the lock to read the latest record of a category to which
\* two ingests have committed.
C3_Witness ==
    /\ data_lock = Reader
    /\ rreq.op = "latest"
    /\ Len(commit_log[rreq.cat]) = 2
    /\ current[rreq.cat] = commit_log[rreq.cat][2]
    /\ current[rreq.cat] # commit_log[rreq.cat][1]

\* C4: an ingest whose body is not a mapping answers with an error in its
\* first step and changes neither a history, a latest record, system_status
\* nor the events emitted.
C4_NonMappingRejected ==
    [][\A p \in Producers :
          (req'[p] # req[p] /\ req'[p].body.type # "dict") =>
              /\ ret'[p] = ErrorResponse
              /\ pc'[p] = "idle"
              /\ UNCHANGED <<history, current, system_status, emitted,
                             commit_log, n_committed>>]_vars

\* A list body was rejected while the store held a record.
C4_Witness ==
    /\ system_status.total_messages > 0
    /\ \E p \in Producers :
           /\ req[p].n > 1
           /\ req[p].body.type = "list"
           /\ pc[p] = "idle"
           /\ ret[p] = ErrorResponse

\* C5: every ingest call whose body is a mapping returns success with the
\* timestamp stamped on its record.
C5_MappingAlwaysSucceeds ==
    \A p \in Producers :
        (pc[p] = "idle" /\ req[p].n > 0 /\ req[p].body.type = "dict") =>
            /\ ret[p].code = 200
            /\ ret[p].timestamp = req[p].data["server_timestamp"]

\* The step in which the reader builds its response.
ReadStep == rpc = "locked" /\ rpc' = "idle"

\* C6: a history read with limit >= 0, or with no limit parameter (then
\* limit = 100), returns the most recent min(limit, len(history)) records
\* of the category, oldest first.
C6_HistoryReturnsLastMin ==
    [][(/\ ReadStep
        /\ rreq.op = "history"
        /\ rreq.args = <<>> \/ (rreq.args[1] = "int" /\ rreq.args[2] >= 0)) =>
          LET limit == IF rreq.args = <<>> THEN 100 ELSE rreq.args[2]
              h     == history[rreq.cat]
          IN  /\ rres'.code = 200
              /\ rres'.body = LastN(h, Min(limit, Len(h)))]_vars

\* C7: a history read with a negative limit returns an error and no records.
C7_NegativeLimitRejected ==
    [][(/\ ReadStep
        /\ rreq.op = "history"
        /\ rreq.args # <<>>
        /\ rreq.args[1] = "int"
        /\ rreq.args[2] < 0) =>
          /\ rres'.code = 400
          /\ rres'.body = <<>>]_vars

\* Whether a record of category c was accepted within the last 30 seconds
\* of the current time.
SeenRecently(c) ==
    /\ LastSeen(c) # None
    /\ now - fromisoformat(LastSeen(c)) <= 30

\* The states a reader of the status, who takes the lock, can observe.
Observable == data_lock \in {Free, Reader}

\* C8 as stated: in every observable state online is true if and only if a
\* record of the category was accepted within the last 30 seconds.
C8_OnlineIffSeenRecently ==
    Observable => \A c \in Categories : Online(c) <=> SeenRecently(c)

\* C8 as amended: in every observable state, a category of which a record
\* was accepted within the last 30 seconds is online, and a category that
\* is online has accepted a record.
C8_SeenRecentlyImpliesOnline ==
    Observable =>
        \A c \in Categories :
            /\ SeenRecently(c) => Online(c)
            /\ Online(c) => LastSeen(c) # None

\* A sweep has run exactly 30 seconds after the last record of a category,
\* and the category is still online.
C8_Witness ==
    /\ nsweeps >= 1
    /\ data_lock = Free
    /\ \E c \in Categories :
           /\ LastSeen(c) # None
           /\ current_time - fromisoformat(LastSeen(c)) = 30
           /\ now = current_time
           /\ Online(c)

\* The step in which the sweeper runs the body of its with block, and the
\* age its current_time gives the last record of a category.
SweepStep == spc = "check" /\ spc' = "sleep"
Stale(c) ==
    /\ LastSeen(c) # None
    /\ current_time - fromisoformat(LastSeen(c)) > 30

\* C9: a sweep sets online to false for exactly the categories whose
\* last_seen is set and more than 30 seconds before its current_time, leaves
\* every other online flag, every last_seen, total_messages, the latest
\* records and the histories as they are, and a second sweep with the same
\* current_time changes nothing more.
C9_SweepMarksStaleOffline ==
    [][SweepStep =>
          /\ \A c \in Categories :
                 /\ Online(c)' = (IF Stale(c) THEN FALSE ELSE Online(c))
                 /\ LastSeen(c)' = LastSeen(c)
          /\ system_status'.total_messages = system_status.total_messages
          /\ UNCHANGED <<history, current>>
          /\ CheckAll(system_status', current_time) = system_status']_vars

\* A sweep has turned one category offline 31 seconds after its last record,
\* left online a category seen since, and left alone one never seen.
C9_Witness ==
    /\ nsweeps >= 1
    /\ spc = "sleep"
    /\ \E c1, c2, c3 \in Categories :
           /\ LastSeen(c1) # None
           /\ current_time - fromisoformat(LastSeen(c1)) = 31
           /\ ~Online(c1)
           /\ LastSeen(c2) # None
           /\ current_time - fromisoformat(LastSeen(c2)) <= 30
           /\ Online(c2)
           /\ LastSeen(c3) = None
           /\ ~Online(c3)

\* Whether a status dict and the latest records read with it show each
\* category either untouched or fully updated by its ingests.
StatusCoherent(st) ==
    \A c \in Categories : st[OnlineKey(c)] => st[LastSeenKey(c)] # None

LatestCoherent(d) ==
    \A c \in Categories :
        d[c] # EmptyDict <=> d.system_status[LastSeenKey(c)] # None

\* C10: while a reader holds the lock the store is the store between two
\* ingest critical sections (per category latest present iff last_seen
\* present iff history non-empty, online only with last_seen present,
\* total_messages the number of ingests committed), and what getStatus,
\* getAllLatest and the request_all_data pull returned shows such a store.
C10_NoTornRead ==
    /\ data_lock = Reader =>
           /\ StatusCoherent(system_status)
           /\ LatestCoherent(AllData)
           /\ \A c \in Categories : current[c] # EmptyDict <=> history[c] # <<>>
           /\ system_status.total_messages = n_committed
    /\ (rpc = "idle" /\ nreads > 0) =>
           /\ rreq.op = "status" =>
                  /\ StatusCoherent(rres.body)
                  /\ rres.body.total_messages = read_at
           /\ rreq.op \in {"all_latest", "request_all_data"} =>
                  /\ StatusCoherent(rres.body.system_status)
                  /\ LatestCoherent(rres.body)
                  /\ rres.body.system_status.total_messages = read_at

\* getAllLatest returned the store as it was after the first ingest had
\* committed, and the producer is inside the critical section of the second.
C10_Witness ==
    /\ rpc = "idle"
    /\ nreads > 0
    /\ rreq.op = "all_latest"
    /\ read_at = 1
    /\ rres.body.system_status.total_messages = 1
    /\ data_lock \in Producers

\* Whether an emitted event is the update event of an ingest handler, and
\* the position of request n among the committed requests (0: not committed).
IsUpdate(e) == e.event \in {EventName(c) : c \in Categories}
CommitIndex(n) ==
    IF \E k \in DOMAIN commit_order : commit_order[k] = n
    THEN CHOOSE k \in DOMAIN commit_order : commit_order[k] = n
    ELSE 0

\* C11: update events are emitted in the order their ingests committed: of
\* two update events, the one emitted first belongs to the ingest whose
\* critical section completed first, whatever the categories.
C11_EmitsInCommitOrder ==
    \A i, j \in DOMAIN emitted :
        (i < j /\ IsUpdate(emitted[i]) /\ IsUpdate(emitted[j])) =>
            CommitIndex(emitted[i].data.id) < CommitIndex(emitted[j].data.id)

\* C12: no thread holds data_lock while the statement it executes next is an
\* emit: neither an ingest handler at its broadcast nor the
\* request_all_data handler at its reply.
C12_NoEmitUnderLock ==
    /\ \A p \in Producers : pc[p] = "emit" => data_lock # p
    /\ (rpc = "locked" /\ rreq.op = "request_all_data") => data_lock # Reader

\* The update events emitted for request n.
UpdatesOf(n) ==
    {i \in DOMAIN emitted : IsUpdate(emitted[i]) /\ emitted[i].data.id = n}

\* The record request n committed to category c.
CommittedRecord(c, n) ==
    commit_log[c][CHOOSE k \in DOMAIN commit_log[c] : commit_log[c][k].id = n]

\* C13: every ingest that committed and has passed its emit statement has
\* exactly one update event, every other ingest has none; an update event
\* has the name of its ingest's category and carries the record that ingest
\* committed; and the emit statement, the only step a committed ingest can
\* take next, appends that event for every client connected at that moment.
C13_OneBroadcastPerCommit ==
    /\ [](/\ \A n \in 1..ncalls :
                Cardinality(UpdatesOf(n)) =
                    IF /\ CommitIndex(n) > 0
                       /\ ~ \E p \in Producers : req[p].n = n /\ pc[p] = "emit"
                    THEN 1 ELSE 0
          /\ \A i \in DOMAIN emitted :
                IsUpdate(emitted[i]) =>
                    \E c \in Categories :
                        /\ emitted[i].event = EventName(c)
                        /\ \E k \in DOMAIN commit_log[c] :
                               commit_log[c][k] = emitted[i].data
          /\ \A p \in Producers :
                pc[p] = "emit" <=>
                    (CommitIndex(req[p].n) > 0 /\ UpdatesOf(req[p].n) = {}))
    /\ [][\A p \in Producers :
             pc[p] = "emit" =>
                 \/ pc'[p] = "emit"
                 \/ /\ pc'[p] = "log"
                    /\ emitted' =
                           Append(emitted,
                                  [event |-> EventName(req[p].cat),
                                   data |-> CommittedRecord(req[p].cat, req[p].n),
                                   to |-> {s \in Sids : sock[s] = "open"}])]_vars

\* The record of a committed ingest was broadcast to two connected clients,
\* and an ingest that was rejected has no event.
C13_Witness ==
    /\ AllIdle
    /\ ncalls = 2
    /\ n_committed = 1
    /\ \E i \in DOMAIN emitted :
           /\ IsUpdate(emitted[i])
           /\ emitted[i].to = Sids
           /\ emitted[i].data = current[CHOOSE c \in Categories :
                                            EventName(c) = emitted[i].event]
    /\ \E p \in Producers : req[p].n = 2 /\ ret[p] = ErrorResponse
           /\ req[p].body.type # "dict"

\* C14: under fair scheduling a sweeper that has woken and waits for the
\* lock eventually completes its sweep, after which every category whose
\* last_seen is more than 30 seconds before the sweep's current_time is
\* offline; and a category that is offline comes online again only by the
\* step of an ingest of that category that sets its online flag.
C14_SweepNeverSkipped ==
    /\ (spc = "lock") ~>
           (spc = "sleep" /\ \A c \in Categories : Stale(c) => ~Online(c))
    /\ [][\A c \in Categories :
             (~Online(c) /\ Online(c)') =>
                 \E p \in Producers :
                     /\ req[p].cat = c
                     /\ pc[p] = "set_online"
                     /\ pc'[p] = "set_last_seen"]_vars

\* The sweeper waits for the lock an ingest holds while a category is
\* online with a last record more than 30 seconds old.
C14_Witness ==
    /\ spc = "lock"
    /\ data_lock \in Producers
    /\ \E c \in Categories : Stale(c) /\ Online(c)

\* C15: whenever no thread is inside a critical section, last_seen of a
\* category that has accepted a record equals the server_timestamp of its
\* latest record, and a producer whose call returned success for that latest
\* record was answered with the same timestamp.
C15_LastSeenIsServerTimestamp ==
    data_lock = Free =>
        \A c \in Categories :
            commit_log[c] # <<>> =>
                /\ LastSeen(c) = current[c]["server_timestamp"]
                /\ \A p \in Producers :
                       (/\ pc[p] = "idle"
                        /\ req[p].n > 0
                        /\ req[p].data = current[c]
                        /\ ret[p].code = 200) =>
                           ret[p].timestamp = LastSeen(c)

\* The position in emitted of the acknowledgement sent to client s when it
\* connected (0: it has not connected).
AckIndex(s) ==
    IF \E k \in DOMAIN emitted : emitted[k] = ConnectionResponse(s)
    THEN CHOOSE k \in DOMAIN emitted : emitted[k] = ConnectionResponse(s)
    ELSE 0

\* C16 as stated: a client is sent the update event of a record only if the
\* record's ingest committed after the client connected.
C16_NoRecordCommittedBeforeConnect ==
    \A s \in Sids : \A i \in DOMAIN emitted :
        (IsUpdate(emitted[i]) /\ s \in emitted[i].to) =>
            CommitIndex(emitted[i].data.id) > connected_at[s]

\* C16 as amended: the first thing a client is sent is its connection
\* acknowledgement; an update event it is sent afterwards carries a record
\* that no update event emitted before the client connected carried; and an
\* 'all_data' event carries per category at most one record, a latest one.
C16_NoReplayOnConnect ==
    \A s \in Sids : \A i \in DOMAIN emitted :
        s \in emitted[i].to =>
            /\ AckIndex(s) > 0
            /\ i >= AckIndex(s)
            /\ IsUpdate(emitted[i]) =>
                   ~ \E j \in 1..AckIndex(s) :
                         /\ IsUpdate(emitted[j])
                         /\ emitted[j].data = emitted[i].data
            /\ emitted[i].event = "all_data" =>
                   \A c \in Categories :
                       \/ emitted[i].data[c] = EmptyDict
                       \/ \E k \in DOMAIN commit_log[c] :
                              emitted[i].data[c] = commit_log[c][k]

\* A record was broadcast before client c1 connected and was not sent to it;
\* a later record was broadcast to it.
C16_Witness ==
    \E i, j \in DOMAIN emitted :
        /\ i < AckIndex("c1")
        /\ AckIndex("c1") < j
        /\ IsUpdate(emitted[i])
        /\ "c1" \notin emitted[i].to
        /\ IsUpdate(emitted[j])
        /\ "c1" \in emitted[j].to
        /\ nreads = 0

\* C17: a category starts with online false and no last_seen and stays so
\* until an ingest of it enters its critical section; when the critical
\* section of an ingest completes, its category is online with last_seen
\* set; online goes from true to false only in the step of a sweep that
\* finds the category stale; and last_seen, once set, is never cleared.
C17_LivenessStateMachine ==
    /\ [](\A c \in Categories :
             (commit_log[c] = <<>> /\ data_lock \notin Producers) =>
                 (~Online(c) /\ LastSeen(c) = None))
    /\ [][\A c \in Categories :
             /\ Len(commit_log'[c]) > Len(commit_log[c]) =>
                    (Online(c)' /\ LastSeen(c)' # None)
             /\ (Online(c) /\ ~Online(c)') => (SweepStep /\ Stale(c))
             /\ LastSeen(c) # None => LastSeen(c)' # None]_vars

\* A category that was seen and then marked offline by a sweep is about to
\* be set online again by an ingest.
C17_Witness ==
    /\ nsweeps >= 1
    /\ spc = "sleep"
    /\ \E c \in Categories :
           /\ ~Online(c)
           /\ LastSeen(c) # None
           /\ \E p \in Producers : req[p].cat = c /\ pc[p] = "set_online"

\* C18: an ingest call that has returned an error committed nothing (its
\* request is not among the committed ones, so the histories, latest records
\* and system_status are as they would be without the call) and no update
\* event carries its record.
C18_ErrorLeavesNoTrace ==
    \A p \in Producers :
        (pc[p] = "idle" /\ req[p].n > 0 /\ ret[p].code = 400) =>
            /\ CommitIndex(req[p].n) = 0
            /\ UpdatesOf(req[p].n) = {}

\* C19: the server_timestamp values of a category's history never decrease
\* from the oldest record to the newest, so the latest record carries the
\* greatest of them.
C19_HistoryTimestampsMonotone ==
    \A c \in Categories :
        \A i, j \in DOMAIN history[c] :
            i < j =>
                fromisoformat(history[c][i]["server_timestamp"])
                    <= fromisoformat(history[c][j]["server_timestamp"])

\* C20: when a sweep sets online of a category to false, more than 30
\* seconds have passed since its last_seen; and a category whose last_seen
\* is not before the sweep's current_time, as after an ingest that committed
\* between the sweeper's clock read and its critical section, is online
\* after the sweep.
C20_SweepSparesFresh ==
    [][SweepStep =>
          \A c \in Categories :
              /\ (Online(c) /\ ~Online(c)') =>
                     now - fromisoformat(LastSeen(c)) > 30
              /\ (/\ LastSeen(c) # None
                  /\ fromisoformat(LastSeen(c)) >= current_time) =>
                     Online(c)']_vars

\* The sweeper holds the lock with a current_time older than the last_seen
\* of a category that committed while it waited, and another category is
\* stale.
C20_Witness ==
    /\ spc = "check"
    /\ \E c1, c2 \in Categories :
           /\ LastSeen(c1) # None
           /\ fromisoformat(LastSeen(c1)) > current_time
           /\ Online(c1)
           /\ Stale(c2)
           /\ Online(c2)

====
